---- MODULE Spec2Model ----
(***************************************************************************)
(* Event sources of wayland-server (src/wayland-server/src/sources.rs):    *)
(* the Source<E> handle of FD, timer and signal sources, the IdleSource    *)
(* handle with its reference-counted shared state, and the four dispatch   *)
(* trampolines the event loop (libwayland, "the reactor") calls back.      *)
(*                                                                         *)
(* A token is one wl_event_source.  For each token the model keeps the     *)
(* reactor's view (is it registered, is the timer armed, the fd interest), *)
(* the heap cell that escrows the handler (allocated or freed, the handler *)
(* stored in it, the Rc strong count and the dispatched flag of an idle    *)
(* source) and the caller's handle (held, dropped, or consumed by remove). *)
(***************************************************************************)
EXTENDS Integers, FiniteSets, Sequences, TLC

\* ------------------------------------------------------------------ bounds
NumTokens == 1          \* tokens the reactor can hand out
MaxCalls == 2           \* trampoline invocations followed per token
MaxMask == 15           \* largest raw readiness mask the reactor reports
MaxDelay == 1           \* largest timer delay passed to set_delay_ms

\* ------------------------------------------------------- program constants
READ == 1               \* FdInterest::READ
WRITE == 2              \* FdInterest::WRITE
EPOLLERR == 8           \* 0x08, the error bit of the raw mask
EPOLLHUP == 4           \* 0x04, the hangup bit of the raw mask
EPOLLOUT == 2           \* 0x02, the writable bit of the raw mask
EPOLLIN == 1            \* 0x01, the readable bit of the raw mask

Tokens == 1..NumTokens
Kinds == {"fd", "timer", "signal", "idle"}
\* a handler is a boxed closure; each registration brings its own
HandlerOf(t) == <<"handler", t>>
Handlers == {HandlerOf(t) : t \in Tokens}
NoHandler == <<"none", 0>>
Masks == 0..MaxMask
Delays == 0..MaxDelay
Fds == {5}
\* what getsockopt(fd, SO_ERROR) can answer: Ok(errno) or Err(_)
SockResults == {[ok |-> TRUE, err |-> "ECONNABORTED"], [ok |-> TRUE, err |-> "ECONNRESET"],
                [ok |-> FALSE, err |-> "none"]}
\* raw signal numbers the reactor can pass; 0 is not a signal
SignalNums == {2, 0}

\* mask & bit > 0
HasBit(mask, bit) == (mask \div bit) % 2 = 1

\* ------------------------------------------------------------- io::Error
ErrorKindOf(code) ==
    IF code = "ECONNABORTED" THEN "ConnectionAborted"
    ELSE IF code = "ECONNRESET" THEN "ConnectionReset"
    ELSE "Other"

\* IoError::from_raw_os_error(err)
FromRawOsError(err) == [repr |-> "Os", kind |-> ErrorKindOf(err), code |-> err]

\* IoError::new(ErrorKind::ConnectionAborted, "")
ConnectionAbortedError == [repr |-> "Custom", kind |-> "ConnectionAborted", code |-> "none"]

NoError == [repr |-> "None", kind |-> "None", code |-> "none"]

\* ------------------------------------------------------------- the events
ReadyEvent(fd, bits) == [tag |-> "Ready", fd |-> fd, mask |-> bits, error |-> NoError]
ErrorEvent(fd, err) == [tag |-> "Error", fd |-> fd, mask |-> 0, error |-> err]
TimerEvent == [tag |-> "Timer", fd |-> 0, mask |-> 0, error |-> NoError]
SignalEvent(sig) == [tag |-> "Signal", fd |-> sig, mask |-> 0, error |-> NoError]
IdleEvent == [tag |-> "Idle", fd |-> 0, mask |-> 0, error |-> NoError]
NoEvent == [tag |-> "None", fd |-> 0, mask |-> 0, error |-> NoError]

\* READ and WRITE taken for each other
ReadyBitsSwapped(mask) ==
    (IF HasBit(mask, EPOLLOUT) THEN READ ELSE 0)
    + (IF HasBit(mask, EPOLLIN) THEN WRITE ELSE 0)

\* the FdInterest built in the last branch of the FD trampoline
ReadyBits(mask) ==
    (IF HasBit(mask, EPOLLOUT) THEN WRITE ELSE 0)
    + (IF HasBit(mask, EPOLLIN) THEN READ ELSE 0)

\* the hangup bit tested before the error bit
FdDecodeHangupFirst(fd, mask, sock) ==
    IF HasBit(mask, EPOLLHUP)
    THEN [abort |-> FALSE, queried |-> FALSE,
          event |-> ErrorEvent(fd, ConnectionAbortedError)]
    ELSE IF HasBit(mask, EPOLLERR)
    THEN IF sock.ok
         THEN [abort |-> FALSE, queried |-> TRUE,
               event |-> ErrorEvent(fd, FromRawOsError(sock.err))]
         ELSE [abort |-> TRUE, queried |-> TRUE, event |-> NoEvent]
    ELSE [abort |-> FALSE, queried |-> FALSE,
          event |-> ReadyEvent(fd, ReadyBits(mask))]

\* the hangup bit not tested at all
FdDecodeNoHangup(fd, mask, sock) ==
    IF HasBit(mask, EPOLLERR)
    THEN IF sock.ok
         THEN [abort |-> FALSE, queried |-> TRUE,
               event |-> ErrorEvent(fd, FromRawOsError(sock.err))]
         ELSE [abort |-> TRUE, queried |-> TRUE, event |-> NoEvent]
    ELSE [abort |-> FALSE, queried |-> FALSE,
          event |-> ReadyEvent(fd, ReadyBits(mask))]

\* a failed query of the pending error handed on as an Error event
FdDecodeQueryFailureDelivered(fd, mask, sock) ==
    IF HasBit(mask, EPOLLERR)
    THEN [abort |-> FALSE, queried |-> TRUE,
          event |-> ErrorEvent(fd, FromRawOsError(sock.err))]
    ELSE IF HasBit(mask, EPOLLHUP)
    THEN [abort |-> FALSE, queried |-> FALSE,
          event |-> ErrorEvent(fd, ConnectionAbortedError)]
    ELSE [abort |-> FALSE, queried |-> FALSE,
          event |-> ReadyEvent(fd, ReadyBits(mask))]

\* The decode of the FD trampoline: which event the handler receives, whether
\* the descriptor was queried, and whether the trampoline aborted before the
\* handler was reached.
FdDecode(fd, mask, sock) ==
    IF HasBit(mask, EPOLLERR)
    THEN IF sock.ok
         THEN [abort |-> FALSE, queried |-> TRUE,
               event |-> ErrorEvent(fd, FromRawOsError(sock.err))]
         ELSE [abort |-> TRUE, queried |-> TRUE, event |-> NoEvent]
    ELSE IF HasBit(mask, EPOLLHUP)
    THEN [abort |-> FALSE, queried |-> FALSE,
          event |-> ErrorEvent(fd, ConnectionAbortedError)]
    ELSE [abort |-> FALSE, queried |-> FALSE,
          event |-> ReadyEvent(fd, ReadyBits(mask))]

\* Signal::from_c_int(signal) is Ok
KnownSignal(sig) == sig \in 1..31

\* Signal trampoline decode
SignalDecode(sig) ==
    IF KnownSignal(sig)
    THEN [abort |-> FALSE, event |-> SignalEvent(sig)]
    ELSE [abort |-> TRUE, event |-> NoEvent]

\* ------------------------------------------------------------------ state
VARIABLES
    reactor,    \* per token, the event loop's side: kind, live registration, ...
    heap,       \* per token, the allocation that escrows the handler
    handle,     \* per token, the caller's Source / IdleSource value
    obs,        \* per token, what has been observed so far (history)
    last,       \* the trampoline invocation the latest step made, if it made one
    aborted,    \* the process was terminated (libc::abort(), or a crash)
    uaf         \* some step touched memory that was already freed

vars == <<reactor, heap, handle, obs, last, aborted, uaf>>

NoReactor == [kind |-> "none", reg |-> FALSE, fired |-> FALSE, armed |-> FALSE,
              interest |-> 0, fd |-> 0]
NoHeap == [cell |-> "none", stored |-> NoHandler, rc |-> 0, dispatched |-> FALSE]
NoObs == [given |-> NoHandler, returned |-> NoHandler, calls |-> 0, unreg |-> 0,
          frees |-> 0, freedBy |-> "none", lastDelay |-> -1, removeFailed |-> FALSE,
          late |-> 0, stopped |-> 0, fires |-> 0, sinceSet |-> 0,
          staleCall |-> FALSE]
NoLast == [token |-> 0, kind |-> "none", mask |-> 0, sock |-> [ok |-> TRUE, err |-> "none"],
           queried |-> FALSE, invoked |-> FALSE, event |-> NoEvent,
           outcome |-> "none", panicked |-> FALSE, reentrant |-> FALSE]

Init ==
    /\ reactor = [t \in Tokens |-> NoReactor]
    /\ heap = [t \in Tokens |-> NoHeap]
    /\ handle = [t \in Tokens |-> "none"]
    /\ obs = [t \in Tokens |-> NoObs]
    /\ last = NoLast
    /\ aborted = FALSE
    /\ uaf = FALSE

\* ----------------------------------------------------------- registration
\* Box::into_raw(data): the escrow of an FD, timer or signal source is one heap
\* cell owned by the Source value through a raw pointer.
SourceMake(h) == [cell |-> "live", stored |-> h, rc |-> 0, dispatched |-> FALSE]

\* The shared state of an idle source: Rc<RefCell<(handler, false)>> with one
\* share leaked to the reactor as its data pointer and one in the IdleSource.
IdleMake(h) == [cell |-> "live", stored |-> h, rc |-> 2, dispatched |-> FALSE]

\* The caller registers its handler as a source of kind k; the reactor answers
\* with the fresh token t.  A new timer is not armed.
Register(t, k, fd, m) ==
    /\ ~aborted
    /\ reactor[t].kind = "none"
    /\ \A u \in Tokens : u < t => reactor[u].kind # "none"
    /\ reactor' = [reactor EXCEPT ![t] =
                     [kind |-> k, reg |-> TRUE, fired |-> FALSE, armed |-> FALSE,
                      interest |-> IF k = "fd" THEN m ELSE 0,
                      fd |-> IF k = "fd" THEN fd ELSE 0]]
    /\ heap' = [heap EXCEPT ![t] = IF k = "idle" THEN IdleMake(HandlerOf(t))
                                    ELSE SourceMake(HandlerOf(t))]
    /\ handle' = [handle EXCEPT ![t] = "held"]
    /\ obs' = [obs EXCEPT ![t].given = HandlerOf(t)]
    /\ last' = NoLast
    /\ UNCHANGED <<aborted, uaf>>

\* ------------------------------------------------- reactor primitives
\* remove() that forgets to call wl_event_source_remove
UnregisterMissing(r) == r

\* wl_event_source_remove(ptr): the token leaves the event loop
Unregister(r) == [r EXCEPT !.reg = FALSE, !.armed = FALSE, !.interest = 0]

\* a delay of 0 taken as "fire at once"
TimerUpdateAlwaysArms(r, delay) == [r EXCEPT !.armed = TRUE]

\* wl_event_source_timer_update(ptr, delay): a one-shot countdown, 0 disarms
TimerUpdate(r, delay) == [r EXCEPT !.armed = (delay # 0)]

\* wl_event_source_fd_update(ptr, mask)
FdUpdate(r, mask) == [r EXCEPT !.interest = mask]

\* remove(&mut self): the handle stays usable
ConsumeNot(h) == h

\* remove(self) takes the handle by value: the caller has no handle afterwards
Consume(h) == "removed"

\* ------------------------------------------------------ Source<E>::remove
\* wl_event_source_remove(self.ptr); Box::from_raw(self.data); *data
Remove(t) ==
    /\ ~aborted
    /\ reactor[t].kind \in {"fd", "timer", "signal"}
    /\ handle[t] = "held"
    /\ handle' = [handle EXCEPT ![t] = Consume(@)]
    /\ reactor' = [reactor EXCEPT ![t] = Unregister(@)]
    /\ IF heap[t].cell = "live"
       THEN /\ heap' = [heap EXCEPT ![t].cell = "freed", ![t].stored = NoHandler]
            /\ obs' = [obs EXCEPT ![t].unreg = @ + 1, ![t].frees = @ + 1,
                                  ![t].freedBy = "remove",
                                  ![t].returned = heap[t].stored]
            /\ uaf' = uaf
       ELSE \* Box::from_raw of a pointer that was already freed
            /\ heap' = heap
            /\ \E h \in Handlers :
                 obs' = [obs EXCEPT ![t].unreg = @ + 1, ![t].frees = @ + 1,
                                    ![t].returned = h]
            /\ uaf' = TRUE
    /\ last' = NoLast
    /\ UNCHANGED aborted

\* The event loop a token belongs to is torn down while the caller still
\* holds the Source: the token is stale.
Invalidate(t) ==
    /\ ~aborted
    /\ reactor[t].kind \in {"fd", "timer"}
    /\ reactor[t].reg
    /\ handle[t] = "held"
    /\ reactor' = [reactor EXCEPT ![t].reg = FALSE, ![t].armed = FALSE,
                                  ![t].interest = 0]
    /\ last' = NoLast
    /\ UNCHANGED <<heap, handle, obs, aborted, uaf>>

\* update_mask and set_delay_ms hand self.ptr to the reactor as it is, with no
\* test of the token: on a stale token the reactor works on memory it has
\* given up, and the process may or may not crash there.
StaleForward(t) ==
    /\ obs' = [obs EXCEPT ![t].staleCall = TRUE]
    /\ uaf' = TRUE
    /\ \E crash \in BOOLEAN : aborted' = crash
    /\ reactor' = reactor

\* Source<FdEvent>::update_mask
UpdateMask(t, m) ==
    /\ ~aborted
    /\ reactor[t].kind = "fd"
    /\ handle[t] = "held"
    /\ last' = NoLast
    /\ IF reactor[t].reg
       THEN /\ reactor' = [reactor EXCEPT ![t] = FdUpdate(@, m)]
            /\ UNCHANGED <<obs, aborted, uaf>>
       ELSE StaleForward(t)
    /\ UNCHANGED <<heap, handle>>

\* Source<TimerEvent>::set_delay_ms
SetDelayMs(t, delay) ==
    /\ ~aborted
    /\ reactor[t].kind = "timer"
    /\ handle[t] = "held"
    /\ last' = NoLast
    /\ IF reactor[t].reg
       THEN /\ reactor' = [reactor EXCEPT ![t] = TimerUpdate(@, delay)]
            /\ obs' = [obs EXCEPT ![t].lastDelay = delay, ![t].sinceSet = 0]
            /\ UNCHANGED <<aborted, uaf>>
       ELSE StaleForward(t)
    /\ UNCHANGED <<heap, handle>>

\* a Drop implementation that removes the event source
DropSourceRemoves(r) == [r EXCEPT !.reg = FALSE, !.armed = FALSE, !.interest = 0]

\* What dropping the handle does to the registration: nothing; neither Source
\* nor IdleSource implements Drop ("Dropping this struct does not remove the
\* event source").
DropSource(r) == r

\* A Source or IdleSource value goes out of scope without remove().  Source has
\* no Drop: the escrow leaks and the registration stays.  An IdleSource drops
\* its Rc share.
DropHandle(t) ==
    /\ ~aborted
    /\ handle[t] = "held"
    /\ handle' = [handle EXCEPT ![t] = "dropped"]
    /\ IF reactor[t].kind = "idle"
       THEN IF heap[t].cell = "live"
            THEN /\ heap' = [heap EXCEPT
                       ![t].rc = @ - 1,
                       ![t].cell = IF heap[t].rc = 1 THEN "freed" ELSE "live",
                       ![t].stored = IF heap[t].rc = 1 THEN NoHandler ELSE @]
                 /\ obs' = [obs EXCEPT
                       ![t].frees = IF heap[t].rc = 1 THEN @ + 1 ELSE @,
                       ![t].freedBy = IF heap[t].rc = 1 THEN "drop" ELSE @]
                 /\ uaf' = uaf
            ELSE /\ UNCHANGED <<heap, obs>>
                 /\ uaf' = TRUE
       ELSE UNCHANGED <<heap, obs, uaf>>
    /\ reactor' = [reactor EXCEPT ![t] = DropSource(@)]
    /\ last' = NoLast
    /\ UNCHANGED aborted

\* ------------------------------------------------------------ trampolines
\* the record kept of one trampoline invocation
Fired(t, k, mask, sock, queried, invoked, event, outcome) ==
    [token |-> t, kind |-> k, mask |-> mask, sock |-> sock, queried |-> queried,
     invoked |-> invoked, event |-> event, outcome |-> outcome,
     panicked |-> FALSE, reentrant |-> FALSE]

OkSock == [ok |-> TRUE, err |-> "none"]

\* History of a trampoline entered for token t: how many invocations, how many
\* of the timer trampoline since set_delay_ms was last called.
Entered(o, t) ==
    [o EXCEPT !.fires = @ + 1,
              !.sinceSet = IF reactor[t].kind = "timer" THEN @ + 1 ELSE @]

\* History of a handler invocation on token t: how many reached the handler at
\* all, how many after remove() had returned, how many while the timer delay
\* last set was 0.
Invoked(o, t) ==
    [Entered(o, t) EXCEPT !.calls = @ + 1,
              !.late = IF handle[t] = "removed" THEN @ + 1 ELSE @,
              !.stopped = IF reactor[t].kind = "timer" /\ o.lastDelay = 0
                          THEN @ + 1 ELSE @]

\* A trampoline dereferences a data pointer whose cell was freed: what happens
\* is not defined; the handler may or may not run and the process may crash.
DanglingDispatch(t, k, mask, sock) ==
    /\ uaf' = TRUE
    /\ \E inv \in BOOLEAN, crash \in BOOLEAN :
         /\ obs' = [obs EXCEPT ![t] = IF inv THEN Invoked(@, t) ELSE Entered(@, t)]
         /\ aborted' = crash
         /\ last' = Fired(t, k, mask, sock, FALSE, inv, NoEvent, "undefined")
    /\ heap' = heap

\* the panic is let through to the caller instead of aborting
GuardResumes(panics) == IF panics THEN "unwound" ELSE "returned"

\* match ret { Ok(()) => return, Err(_) => { eprintln!(..); libc::abort() } }
\* on the result of catch_unwind around the handler call
Guard(panics) == IF panics THEN "abort" ELSE "returned"

\* a trampoline that takes the escrow back (Box::from_raw) after the call, as
\* the idle one does with its share
DeliverConsuming(t, k, mask, sock, queried, event, panics) ==
    /\ obs' = [obs EXCEPT ![t] = [Invoked(@, t) EXCEPT !.frees = @ + 1,
                                                       !.freedBy = "trampoline"]]
    /\ last' = [Fired(t, k, mask, sock, queried, TRUE, event, Guard(panics))
                  EXCEPT !.panicked = panics]
    /\ aborted' = (Guard(panics) = "abort")
    /\ heap' = [heap EXCEPT ![t].cell = "freed", ![t].stored = NoHandler]
    /\ uaf' = uaf

\* The part all of FD, timer and signal trampolines share: the decoded event is
\* handed to the escrowed handler inside catch_unwind; a panic aborts the
\* process, otherwise the trampoline returns 0.  The escrow is left alone.
Deliver(t, k, mask, sock, queried, event, panics) ==
    /\ obs' = [obs EXCEPT ![t] = Invoked(@, t)]
    /\ last' = [Fired(t, k, mask, sock, queried, TRUE, event, Guard(panics))
                  EXCEPT !.panicked = panics]
    /\ aborted' = (Guard(panics) = "abort")
    /\ UNCHANGED <<heap, uaf>>

\* libc::abort() before the handler is reached
AbortBeforeHandler(t, k, mask, sock, queried) ==
    /\ last' = Fired(t, k, mask, sock, queried, FALSE, NoEvent, "abort")
    /\ aborted' = TRUE
    /\ obs' = [obs EXCEPT ![t] = Entered(@, t)]
    /\ UNCHANGED <<heap, uaf>>

\* the readable and writable bits the reactor reports are among those asked for
Reportable(mask, interest) ==
    /\ HasBit(mask, EPOLLIN) => HasBit(interest, READ)
    /\ HasBit(mask, EPOLLOUT) => HasBit(interest, WRITE)

\* getsockopt answers only where the trampoline asks: with the error bit set
SockAnswers(mask) == IF HasBit(mask, EPOLLERR) THEN SockResults ELSE {OkSock}

\* event_source_fd_dispatcher(fd, mask, data)
FdDispatcher(t, mask, sock, panics) ==
    /\ ~aborted
    /\ reactor[t].kind = "fd"
    /\ reactor[t].reg
    /\ Reportable(mask, reactor[t].interest)
    /\ sock \in SockAnswers(mask)
    /\ obs[t].fires < MaxCalls
    /\ IF heap[t].cell # "live"
       THEN DanglingDispatch(t, "fd", mask, sock)
       ELSE LET d == FdDecode(reactor[t].fd, mask, sock)
            IN  IF d.abort
                THEN AbortBeforeHandler(t, "fd", mask, sock, d.queried)
                ELSE Deliver(t, "fd", mask, sock, d.queried, d.event, panics)
    /\ UNCHANGED <<reactor, handle>>

\* the trampoline arms the timer again by itself
TimerRearmAuto(r) == [r EXCEPT !.armed = TRUE]

\* What the timer trampoline does to the reactor's timer: nothing; it makes no
\* wl_event_source_timer_update call.
TimerRearm(r) == r

\* event_source_timer_dispatcher(data); the reactor's countdown is one-shot
TimerDispatcher(t, panics) ==
    /\ ~aborted
    /\ reactor[t].kind = "timer"
    /\ reactor[t].reg
    /\ reactor[t].armed
    /\ obs[t].fires < MaxCalls
    /\ reactor' = [reactor EXCEPT ![t] = TimerRearm([@ EXCEPT !.armed = FALSE])]
    /\ IF heap[t].cell # "live"
       THEN DanglingDispatch(t, "timer", 0, OkSock)
       ELSE Deliver(t, "timer", 0, OkSock, FALSE, TimerEvent, panics)
    /\ UNCHANGED handle

\* event_source_signal_dispatcher(signal, data)
SignalDispatcher(t, sig, panics) ==
    /\ ~aborted
    /\ reactor[t].kind = "signal"
    /\ reactor[t].reg
    /\ obs[t].fires < MaxCalls
    /\ IF heap[t].cell # "live"
       THEN DanglingDispatch(t, "signal", sig, OkSock)
       ELSE LET d == SignalDecode(sig)
            IN  IF d.abort
                THEN AbortBeforeHandler(t, "signal", sig, OkSock, FALSE)
                ELSE Deliver(t, "signal", sig, OkSock, FALSE, d.event, panics)
    /\ UNCHANGED <<reactor, handle>>

\* the share released, the flag left unset
IdleReleaseNoFlag(c) ==
    [c EXCEPT !.rc = @ - 1,
              !.cell = IF c.rc = 1 THEN "freed" ELSE "live",
              !.stored = IF c.rc = 1 THEN NoHandler ELSE @]

\* the flag set, the reactor's share never taken back
IdleReleaseKeepsShare(c) == [c EXCEPT !.dispatched = TRUE]

\* The Ok arm of the idle trampoline: Rc::from_raw(data) takes the reactor's
\* share back, the dispatched flag is set, and the share is dropped at the end
\* of the arm; the cell goes with the last share.
IdleRelease(c) ==
    [c EXCEPT !.dispatched = TRUE,
              !.rc = @ - 1,
              !.cell = IF c.rc = 1 THEN "freed" ELSE "live",
              !.stored = IF c.rc = 1 THEN NoHandler ELSE @]

\* The body of event_source_idle_dispatcher(data): borrow the cell, call the
\* handler; on a panic abort; otherwise take back the reactor's Rc share, set
\* the dispatched flag and drop the share.
IdleTrampoline(t, panics) ==
    IF heap[t].cell # "live"
    THEN DanglingDispatch(t, "idle", 0, OkSock)
    ELSE /\ last' = [Fired(t, "idle", 0, OkSock, FALSE, TRUE, IdleEvent, Guard(panics))
                       EXCEPT !.panicked = panics]
         /\ aborted' = (Guard(panics) = "abort")
         /\ uaf' = uaf
         /\ IF Guard(panics) # "returned"
            THEN /\ heap' = heap
                 /\ obs' = [obs EXCEPT ![t] = Invoked(@, t)]
            ELSE LET freed == IdleRelease(heap[t]).cell = "freed"
                 IN  /\ heap' = [heap EXCEPT ![t] = IdleRelease(@)]
                     /\ obs' = [obs EXCEPT
                           ![t] = [Invoked(@, t) EXCEPT
                                     !.frees = IF freed THEN @ + 1 ELSE @,
                                     !.freedBy = IF freed THEN "trampoline" ELSE @]]

\* The reactor runs a pending idle source, once, and forgets it.
IdleDispatcher(t, panics) ==
    /\ ~aborted
    /\ reactor[t].kind = "idle"
    /\ reactor[t].reg
    /\ obs[t].fires < MaxCalls
    /\ reactor' = [reactor EXCEPT ![t].reg = FALSE, ![t].fired = TRUE]
    /\ IdleTrampoline(t, panics)
    /\ UNCHANGED handle

\* A reactor that breaks its contract: the token of an idle source that has
\* already run is signalled again.
IdleResignal(t, panics) ==
    /\ ~aborted
    /\ reactor[t].kind = "idle"
    /\ reactor[t].fired
    /\ obs[t].fires < MaxCalls
    /\ IdleTrampoline(t, panics)
    /\ UNCHANGED <<reactor, handle>>

\* ------------------------------------------------------ IdleSource::remove
\* the dispatched flag not consulted
IdleRemoveReleasesAlways(dispatched) == TRUE

\* the share never taken back
IdleRemoveReleasesNever(dispatched) == FALSE

\* the test of the dispatched flag inverted
IdleRemoveReleasesInverted(dispatched) == dispatched

\* if !dispatched: the reactor's share was not consumed by the trampoline, so
\* remove() unregisters the source and takes that share back
IdleRemoveReleases(dispatched) == ~dispatched

IdleRemove(t) ==
    /\ ~aborted
    /\ reactor[t].kind = "idle"
    /\ handle[t] = "held"
    /\ handle' = [handle EXCEPT ![t] = Consume(@)]
    /\ last' = NoLast
    /\ aborted' = aborted
    /\ IF heap[t].cell # "live"
       THEN \* self.data points at a freed RcBox: flag, count and handler are
            \* whatever the memory holds
            /\ uaf' = TRUE
            /\ heap' = heap
            /\ \E d \in BOOLEAN, h \in Handlers, fail \in BOOLEAN :
                 /\ reactor' = [reactor EXCEPT
                                  ![t] = IF IdleRemoveReleases(d) THEN Unregister(@) ELSE @]
                 /\ obs' = [obs EXCEPT
                       ![t].unreg = IF IdleRemoveReleases(d) THEN @ + 1 ELSE @,
                       ![t].frees = IF fail THEN @ ELSE @ + 1,
                       ![t].returned = IF fail THEN NoHandler ELSE h,
                       ![t].removeFailed = fail]
       ELSE LET releases == IdleRemoveReleases(heap[t].dispatched)
                \* the strong count once the share taken back was dropped
                count == IF releases THEN heap[t].rc - 1 ELSE heap[t].rc
            IN  /\ reactor' = [reactor EXCEPT
                                 ![t] = IF releases THEN Unregister(@) ELSE @]
                /\ IF count = 0
                   THEN \* dropping the share taken back freed the cell that
                        \* self.data still points at; try_unwrap reads it
                        /\ uaf' = TRUE
                        /\ heap' = [heap EXCEPT ![t].rc = 0, ![t].cell = "freed",
                                                ![t].stored = NoHandler]
                        /\ \E h \in Handlers, fail \in BOOLEAN :
                             obs' = [obs EXCEPT
                               ![t].unreg = @ + 1,
                               ![t].frees = IF fail THEN @ + 1 ELSE @ + 2,
                               ![t].freedBy = "remove",
                               ![t].returned = IF fail THEN NoHandler ELSE h,
                               ![t].removeFailed = fail]
                   ELSE IF count = 1
                   THEN \* Rc::try_unwrap succeeds: the cell goes, the handler
                        \* is moved out to the caller
                        /\ uaf' = uaf
                        /\ heap' = [heap EXCEPT ![t].rc = 0, ![t].cell = "freed",
                                                ![t].stored = NoHandler]
                        /\ obs' = [obs EXCEPT
                              ![t].unreg = IF releases THEN @ + 1 ELSE @,
                              ![t].frees = @ + 1,
                              ![t].freedBy = "remove",
                              ![t].returned = heap[t].stored]
                   ELSE \* panic!("Idle Rc was not singly owned."); the Rc that
                        \* try_unwrap gave back is dropped by the unwinding
                        /\ uaf' = uaf
                        /\ heap' = [heap EXCEPT ![t].rc = count - 1]
                        /\ obs' = [obs EXCEPT
                              ![t].unreg = IF releases THEN @ + 1 ELSE @,
                              ![t].removeFailed = TRUE]

\* the borrow given up before the handler is called
BorrowReleasedBeforeHandler == FALSE

\* let mut data = data.borrow_mut(); data.0.receive((), ()): the exclusive
\* borrow of the cell lasts as long as the handler call
BorrowHeldDuringHandler == TRUE

\* The reactor runs a pending idle source whose handler, while it runs, calls
\* remove() on its own IdleSource.  remove() begins with self.data.borrow():
\* the cell is exclusively borrowed, so this panics; the unwinding drops the
\* IdleSource and reaches the trampoline's catch_unwind.
IdleReentrantRemove(t) ==
    /\ ~aborted
    /\ reactor[t].kind = "idle"
    /\ reactor[t].reg
    /\ handle[t] = "held"
    /\ heap[t].cell = "live"
    /\ obs[t].fires < MaxCalls
    /\ reactor' = [reactor EXCEPT ![t].reg = FALSE, ![t].fired = TRUE]
    /\ IF BorrowHeldDuringHandler
       THEN /\ handle' = [handle EXCEPT ![t] = "dropped"]
            /\ heap' = [heap EXCEPT ![t].rc = @ - 1]
            /\ obs' = [obs EXCEPT ![t] = Invoked(@, t)]
            /\ last' = [Fired(t, "idle", 0, OkSock, FALSE, TRUE, IdleEvent, Guard(TRUE))
                          EXCEPT !.panicked = TRUE, !.reentrant = TRUE]
            /\ aborted' = (Guard(TRUE) = "abort")
            /\ uaf' = uaf
       ELSE \* remove() runs to its end inside the handler; the trampoline then
            \* works on the cell that remove() freed
            /\ handle' = [handle EXCEPT ![t] = Consume(@)]
            /\ heap' = [heap EXCEPT ![t].rc = 0, ![t].cell = "freed",
                                    ![t].stored = NoHandler]
            /\ obs' = [obs EXCEPT ![t] = [Invoked(@, t) EXCEPT
                                            !.unreg = @ + 1, !.frees = @ + 1,
                                            !.freedBy = "remove",
                                            !.returned = heap[t].stored]]
            /\ last' = [Fired(t, "idle", 0, OkSock, FALSE, TRUE, IdleEvent, "undefined")
                          EXCEPT !.reentrant = TRUE]
            /\ uaf' = TRUE
            /\ \E crash \in BOOLEAN : aborted' = crash

\* ------------------------------------------------------- specifications
Next ==
    \/ \E t \in Tokens, k \in Kinds, fd \in Fds, m \in 0..3 :
         Register(t, k, fd, m)
    \/ \E t \in Tokens : Remove(t)
    \/ \E t \in Tokens : IdleRemove(t)
    \/ \E t \in Tokens : DropHandle(t)
    \/ \E t \in Tokens, m \in 0..3 : UpdateMask(t, m)
    \/ \E t \in Tokens, d \in Delays : SetDelayMs(t, d)
    \/ \E t \in Tokens, mask \in Masks, sock \in SockResults \cup {OkSock}, p \in BOOLEAN :
         FdDispatcher(t, mask, sock, p)
    \/ \E t \in Tokens, p \in BOOLEAN : TimerDispatcher(t, p)
    \/ \E t \in Tokens, sig \in SignalNums, p \in BOOLEAN : SignalDispatcher(t, sig, p)
    \/ \E t \in Tokens, p \in BOOLEAN : IdleDispatcher(t, p)
    \/ \E t \in Tokens : IdleReentrantRemove(t)

Spec == Init /\ [][Next]_vars

\* the same program under a reactor that may signal a spent idle token again
NextResignal ==
    \/ Next
    \/ \E t \in Tokens, p \in BOOLEAN : IdleResignal(t, p)

SpecResignal == Init /\ [][NextResignal]_vars

\* the same program when an event loop can go away before its sources
NextStale ==
    \/ Next
    \/ \E t \in Tokens : Invalidate(t)

SpecStale == Init /\ [][NextStale]_vars

\* ------------------------------------------------------------------ claims
IsSource(t) == reactor[t].kind \in {"fd", "timer", "signal"}
IsIdle(t) == reactor[t].kind = "idle"

\* C1: the escrow of every source is freed exactly once and never touched
\* afterwards: at most one deallocation per token, no access to a freed cell,
\* a removed source's cell was freed by remove(); an FD, timer or signal cell is
\* freed by remove() only; an idle cell is freed by the trampoline only when
\* the trampoline's share was the last one (the handle had been dropped).
EscrowFreedExactlyOnce ==
    /\ ~uaf
    /\ \A t \in Tokens :
         /\ obs[t].frees <= 1
         /\ (obs[t].frees = 1) = (heap[t].cell = "freed")
         /\ handle[t] = "removed" => obs[t].frees = 1 /\ obs[t].freedBy = "remove"
         /\ IsSource(t) => (obs[t].frees = 1) = (handle[t] = "removed")
         /\ obs[t].freedBy = "trampoline" => IsIdle(t) /\ handle[t] = "dropped"
         /\ obs[t].freedBy = "drop" => IsIdle(t) /\ reactor[t].fired

\* an idle source that fired once and was then removed, its cell freed once
EscrowFreedWitness ==
    \E t \in Tokens :
        /\ IsIdle(t) /\ reactor[t].fired /\ obs[t].calls = 1
        /\ handle[t] = "removed" /\ obs[t].frees = 1

\* C2: the handler of an idle source is invoked at most once over the life of
\* the registration, also when the reactor invokes the idle trampoline again
\* for the same token.
IdleHandlerInvokedAtMostOnce ==
    \A t \in Tokens : IsIdle(t) => obs[t].calls <= 1

\* C3: remove() on an FD, timer or signal source returns the handler given at
\* registration, and no trampoline invocation reaches the handler afterwards.
RemoveReturnsHandlerAndStopsDispatch ==
    \A t \in Tokens :
        IsSource(t) /\ handle[t] = "removed" =>
            /\ obs[t].returned = obs[t].given
            /\ obs[t].returned # NoHandler
            /\ obs[t].late = 0
            /\ ~reactor[t].reg

\* a source removed after two dispatches
RemoveAfterDispatchesWitness ==
    \E t \in Tokens :
        /\ IsSource(t) /\ handle[t] = "removed"
        /\ obs[t].calls >= 2 /\ obs[t].returned = HandlerOf(t)

\* C4: remove() on an idle source that has not fired calls unregister exactly
\* once, gives up the registration side's share (the cell ends with no owner,
\* freed once) and returns the registered handler.
PendingIdleRemove ==
    \A t \in Tokens :
        IsIdle(t) /\ handle[t] = "removed" /\ ~reactor[t].fired =>
            /\ obs[t].unreg = 1
            /\ ~reactor[t].reg
            /\ heap[t].rc = 0 /\ heap[t].cell = "freed" /\ obs[t].frees = 1
            /\ ~obs[t].removeFailed
            /\ obs[t].returned = obs[t].given /\ obs[t].returned # NoHandler

\* an idle source removed while pending
PendingIdleRemoveWitness ==
    \E t \in Tokens :
        /\ IsIdle(t) /\ handle[t] = "removed" /\ ~reactor[t].fired
        /\ obs[t].calls = 0 /\ obs[t].unreg = 1

\* C5: remove() on an idle source whose trampoline has fired once does not
\* call unregister, frees the cell once (no second release) and returns the
\* registered handler.
FiredIdleRemove ==
    \A t \in Tokens :
        IsIdle(t) /\ handle[t] = "removed" /\ reactor[t].fired =>
            /\ obs[t].calls = 1
            /\ obs[t].unreg = 0
            /\ obs[t].frees = 1 /\ heap[t].rc = 0 /\ ~uaf
            /\ ~obs[t].removeFailed
            /\ obs[t].returned = obs[t].given /\ obs[t].returned # NoHandler

\* an idle source removed after its one firing
FiredIdleRemoveWitness ==
    \E t \in Tokens :
        /\ IsIdle(t) /\ handle[t] = "removed" /\ reactor[t].fired
        /\ heap[t].dispatched /\ obs[t].unreg = 0 /\ obs[t].returned = HandlerOf(t)

\* C6: unregister is called at most once for any token, whatever the kind and
\* the operations before; it is called by remove() only, which leaves no
\* handle to call it again.
UnregisterAtMostOnce ==
    \A t \in Tokens :
        /\ obs[t].unreg <= 1
        /\ obs[t].unreg = 1 => handle[t] = "removed"

\* an FD source unregistered by remove() after a dispatch
UnregisterOnceWitness ==
    \E t \in Tokens :
        /\ reactor[t].kind = "fd" /\ obs[t].calls >= 1
        /\ handle[t] = "removed" /\ obs[t].unreg = 1

\* the latest step was the FD trampoline and it reached the handler
FdDelivered == last.kind = "fd" /\ last.invoked /\ last.outcome # "undefined"

\* C7: for a raw mask with the error bit, the event delivered is Error{fd,
\* error} with the descriptor's pending socket error, whatever the other bits;
\* never Ready, never the synthetic connection-aborted error.
ErrorBitYieldsSocketError ==
    FdDelivered /\ HasBit(last.mask, 8) =>
        /\ last.event.tag = "Error"
        /\ last.event.fd = reactor[last.token].fd
        /\ last.queried /\ last.sock.ok
        /\ last.event.error.repr = "Os"
        /\ last.event.error.code = last.sock.err
        /\ last.event.error # ConnectionAbortedError

\* error, hangup, writable and readable all set
ErrorBitWitness ==
    /\ FdDelivered /\ last.mask = 15
    /\ last.event.tag = "Error" /\ last.event.error.code = "ECONNRESET"

\* C8: for a raw mask with the hangup bit and without the error bit, the event
\* delivered is Error{fd, connection-aborted}, made without querying the
\* descriptor, whatever the readable and writable bits.
HangupYieldsConnectionAborted ==
    FdDelivered /\ HasBit(last.mask, 4) /\ ~HasBit(last.mask, 8) =>
        /\ last.event.tag = "Error"
        /\ last.event.fd = reactor[last.token].fd
        /\ last.event.error.repr = "Custom"
        /\ last.event.error.kind = "ConnectionAborted"
        /\ ~last.queried

\* hangup together with readable and writable
HangupWitness ==
    /\ FdDelivered /\ last.mask = 7
    /\ last.event.tag = "Error" /\ last.event.error.kind = "ConnectionAborted"

\* C9: for a raw mask without the error and hangup bits, the event delivered is
\* Ready{fd, mask}, with READ in mask exactly when bit 0x01 is set and WRITE
\* exactly when bit 0x02 is set.
ReadinessYieldsReady ==
    FdDelivered /\ ~HasBit(last.mask, 4) /\ ~HasBit(last.mask, 8) =>
        /\ last.event.tag = "Ready"
        /\ last.event.fd = reactor[last.token].fd
        /\ last.event.mask \in 0..3
        /\ HasBit(last.event.mask, 1) = HasBit(last.mask, 1)
        /\ HasBit(last.event.mask, 2) = HasBit(last.mask, 2)

\* writable only: Ready with WRITE and without READ
ReadyWitness ==
    /\ FdDelivered /\ last.mask = 2
    /\ last.event.tag = "Ready" /\ last.event.mask = 2

\* C10: while the delay last set on a timer source is 0, the timer trampoline
\* does not run and the handler receives no TimerEvent.
ZeroDelayStopsTimer ==
    \A t \in Tokens :
        /\ obs[t].stopped = 0
        /\ reactor[t].kind = "timer" /\ obs[t].lastDelay = 0 => ~reactor[t].armed

\* a timer that fired, was armed again and then stopped with delay 0
ZeroDelayWitness ==
    \E t \in Tokens :
        /\ reactor[t].kind = "timer" /\ reactor[t].reg /\ handle[t] = "held"
        /\ obs[t].lastDelay = 0 /\ obs[t].calls >= 1

\* C11: each timer expiry invokes the handler exactly once with TimerEvent and
\* the trampoline does not arm the timer again: after a dispatch the timer is
\* not armed, and no second dispatch comes before the next set_delay_ms.
TimerOneShot ==
    /\ last.kind = "timer" /\ last.outcome = "returned" =>
         /\ last.invoked /\ last.event = [tag |-> "Timer", fd |-> 0, mask |-> 0,
                                         error |-> NoError]
         /\ ~reactor[last.token].armed
    /\ \A t \in Tokens :
         reactor[t].kind = "timer" =>
            /\ obs[t].sinceSet <= 1
            /\ ~aborted => obs[t].calls = obs[t].fires
            /\ reactor[t].armed => obs[t].sinceSet = 0 /\ obs[t].lastDelay > 0

\* a timer dispatched twice, dormant after the second expiry
TimerOneShotWitness ==
    \E t \in Tokens :
        /\ reactor[t].kind = "timer" /\ reactor[t].reg /\ ~reactor[t].armed
        /\ obs[t].calls = 2 /\ obs[t].sinceSet = 1 /\ obs[t].lastDelay > 0
        /\ last.kind = "timer" /\ last.outcome = "returned"

\* C12: a handler panic in any of the four trampolines ends the process: the
\* trampoline does not return and does not let the panic through; in the idle
\* trampoline the dispatched flag stays unset and no share is released.
PanicAborts ==
    last.panicked =>
        /\ aborted
        /\ last.invoked /\ last.outcome = "abort"
        /\ last.kind = "idle" =>
              /\ ~heap[last.token].dispatched
              /\ heap[last.token].cell = "live"
              /\ heap[last.token].rc = (IF handle[last.token] = "held" THEN 2 ELSE 1)
              /\ obs[last.token].frees = 0

\* the handler of an idle source panicked
PanicAbortsWitness ==
    /\ last.panicked /\ last.kind = "idle" /\ aborted
    /\ handle[last.token] = "held" /\ obs[last.token].calls = 1

\* C13: dropping an IdleSource without remove() does not unregister the idle
\* source: it stays registered with its handler alive, and the handler is
\* invoked when the reactor then runs the idle trampoline.
DroppedIdleStillFires ==
    /\ \A t \in Tokens :
         IsIdle(t) /\ handle[t] = "dropped" =>
            /\ obs[t].unreg = 0
            /\ ~reactor[t].fired =>
                  /\ reactor[t].reg
                  /\ heap[t].cell = "live" /\ heap[t].stored = obs[t].given
    /\ last.kind = "idle" /\ handle[last.token] = "dropped" =>
         /\ last.invoked /\ last.outcome # "undefined"
         /\ obs[last.token].calls = 1

\* the idle trampoline ran the handler of a source whose handle was dropped
DroppedIdleWitness ==
    /\ last.kind = "idle" /\ handle[last.token] = "dropped"
    /\ last.invoked /\ last.outcome = "returned" /\ obs[last.token].unreg = 0

\* C14: a control call (update_mask, set_delay_ms) on a stale token ends the
\* process instead of being forwarded to the reactor.
StaleControlCallIsFatal ==
    \A t \in Tokens : obs[t].staleCall => aborted

\* C15: the FD, timer and signal trampolines call the handler once per firing
\* and leave the source alone: until remove(), whatever the number of firings,
\* the registration is live and the escrow is allocated with the handler given
\* at registration in it.
DispatchLeavesSourceAlone ==
    /\ \A t \in Tokens :
         IsSource(t) =>
            /\ ~aborted => obs[t].calls = obs[t].fires
            /\ handle[t] # "removed" =>
                  /\ reactor[t].reg
                  /\ heap[t].cell = "live" /\ heap[t].stored = obs[t].given
                  /\ obs[t].frees = 0 /\ obs[t].unreg = 0
    /\ last.kind \in {"fd", "timer", "signal"} /\ last.outcome = "returned" =>
         /\ last.invoked
         /\ reactor[last.token].reg /\ heap[last.token].cell = "live"

\* an FD source that fired twice, still registered, its handle still held
DispatchTwiceWitness ==
    \E t \in Tokens :
        /\ reactor[t].kind = "fd" /\ obs[t].calls = 2 /\ obs[t].fires = 2
        /\ reactor[t].reg /\ handle[t] = "held" /\ heap[t].cell = "live"
        /\ last.kind = "fd" /\ last.outcome = "returned"

\* C16: for an idle source whose handle is held, between steps: the dispatched
\* flag is unset exactly when the shared state has two owners and set exactly
\* when it has one; the flag is set and the reactor's share released by the
\* one step that invokes the handler.
IdleFlagMatchesOwners ==
    \A t \in Tokens :
        IsIdle(t) /\ handle[t] = "held" =>
            /\ heap[t].cell = "live" /\ heap[t].rc \in {1, 2}
            /\ ~heap[t].dispatched <=> heap[t].rc = 2
            /\ heap[t].dispatched <=> heap[t].rc = 1
            /\ ~aborted =>
                  /\ heap[t].dispatched <=> reactor[t].fired
                  /\ obs[t].calls = (IF heap[t].dispatched THEN 1 ELSE 0)

\* a fired idle source, its handle the one owner left
IdleFlagWitness ==
    \E t \in Tokens :
        /\ IsIdle(t) /\ handle[t] = "held" /\ ~aborted
        /\ heap[t].dispatched /\ heap[t].rc = 1 /\ obs[t].calls = 1

\* C17: when IdleSource::remove() unwraps the shared container it is the only
\* owner left: with an idle trampoline that runs at most once, "Idle Rc was
\* not singly owned" is never reached, whether removal comes before or after
\* the firing.
IdleRemoveIsSoleOwner ==
    \A t \in Tokens :
        /\ ~obs[t].removeFailed
        /\ IsIdle(t) /\ handle[t] = "removed" =>
              /\ heap[t].rc = 0 /\ heap[t].cell = "freed"
              /\ obs[t].returned = obs[t].given

\* an idle source removed after it fired, the container unwrapped
IdleRemoveSoleOwnerWitness ==
    \E t \in Tokens :
        /\ IsIdle(t) /\ handle[t] = "removed" /\ ~obs[t].removeFailed
        /\ obs[t].calls = 1 /\ heap[t].rc = 0 /\ obs[t].freedBy = "remove"

\* the latest step was a trampoline that met a fatal decode condition: the FD
\* trampoline with the error bit and a failed getsockopt, or the signal
\* trampoline with a number that is no signal
FatalDecode ==
    /\ last.outcome # "undefined"
    /\ \/ last.kind = "fd" /\ HasBit(last.mask, 8) /\ ~last.sock.ok
       \/ last.kind = "signal" /\ last.mask \notin 1..31

\* C18: on a fatal decode condition the process is terminated and the handler
\* is not invoked for that firing.
FatalDecodeAborts ==
    FatalDecode =>
        /\ aborted /\ last.outcome = "abort"
        /\ ~last.invoked /\ last.event.tag = "None"
        /\ obs[last.token].calls = obs[last.token].fires - 1

\* the error bit was set and getsockopt failed
FatalDecodeWitness ==
    /\ last.kind = "fd" /\ HasBit(last.mask, 8) /\ ~last.sock.ok
    /\ last.queried /\ aborted /\ ~last.invoked

\* C19: when the handler of an idle source calls remove() on its own
\* IdleSource from inside the trampoline, the handler is not reclaimed or
\* freed while it runs and unregister is not called: the cell is exclusively
\* borrowed, remove() fails on reading the flag, and the process is terminated.
ReentrantRemoveAborts ==
    last.reentrant =>
        /\ aborted /\ last.outcome = "abort"
        /\ obs[last.token].unreg = 0
        /\ obs[last.token].frees = 0 /\ ~uaf
        /\ heap[last.token].cell = "live"
        /\ heap[last.token].stored = obs[last.token].given
        /\ obs[last.token].returned = NoHandler
        /\ ~heap[last.token].dispatched

\* the handler of an idle source called remove() on its own handle
ReentrantRemoveWitness ==
    /\ last.reentrant /\ last.kind = "idle" /\ last.invoked
    /\ aborted /\ obs[last.token].calls = 1

\* C20: when the IdleSource is dropped while the source is pending and the
\* idle trampoline then fires, the handler is invoked once and the trampoline's
\* release, being the last share, deallocates the shared state, once; no owner
\* is left and nothing touches the state afterwards.
DroppedIdleFreedByTrampoline ==
    /\ last.kind = "idle" /\ last.outcome = "returned"
       /\ handle[last.token] = "dropped" =>
         /\ last.invoked /\ obs[last.token].calls = 1
         /\ heap[last.token].rc = 0 /\ heap[last.token].cell = "freed"
         /\ heap[last.token].stored = NoHandler
         /\ obs[last.token].frees = 1 /\ obs[last.token].freedBy = "trampoline"
    /\ \A t \in Tokens :
         obs[t].freedBy = "trampoline" =>
            /\ handle[t] = "dropped" /\ ~reactor[t].reg
            /\ obs[t].frees = 1 /\ obs[t].calls = 1 /\ ~uaf

\* the idle trampoline fired for a source whose handle had been dropped
DroppedIdleFreedWitness ==
    /\ last.kind = "idle" /\ last.outcome = "returned"
    /\ handle[last.token] = "dropped"
    /\ obs[last.token].freedBy = "trampoline" /\ heap[last.token].rc = 0

====
